---- MODULE Spec2Model ----
(***************************************************************************)
(* WorkspaceSession of src-tauri/src/backend/claude_cli.rs: the turn       *)
(* tracker (active_turns), the persistent channel (stdin and               *)
(* persistent_child) and the tokio mutexes that guard them, as a state     *)
(* machine of concurrently running async tasks.  One action is one run of  *)
(* a task between two suspension points (.await) of the source.            *)
(***************************************************************************)
EXTENDS Naturals, Integers, Sequences, FiniteSets, TLC

\* ---------------------------------------------------------------- bounds
NumTasks == 2
MaxStreams == 2
MaxSends == 2
MaxSessions == 2
MaxPathLen == 3
LiveStreams == 1
LiveSends == 1

Tasks == 1..NumTasks
Threads == {"t1", "t2"}
TurnIds == {"A", "B"}
Handles == {"h1", "h2"}
Streams == 1..MaxStreams
Texts == {"hi"}
ToolUseIds == {"toolu_1"}
ResultValues == {"\"yes\""}
PathSegments == {"", "/usr/bin", "/home/u/.local/bin", "/usr/local/bin"}

\* A tokio Mutex is free or owned by one task; a turn's child mutex may also
\* be owned by the caller that shares the Arc.
Free == <<"free", 0>>
Caller == <<"caller", 0>>
NoOwner(p) == Free
Owner(p) == <<"task", p>>
None == {}
Some(v) == {v}
Unwrap(o) == CHOOSE v \in o : TRUE
\* The persistent Child: the session never looks at which process it is.
TheChild == "child"

VARIABLES
  active_turns,           \* HashMap<String, ActiveTurn>: a set of entries
  active_turns_lock,      \* owner of the active_turns mutex
  child_lock,             \* owner of each turn child's Arc<Mutex<Child>>
  stdin,                  \* Option<ChildStdin>
  stdin_lock,             \* owner of the stdin mutex
  persistent_child,       \* Option<Child>: None or Some(TheChild)
  persistent_child_lock,  \* owner of the persistent_child mutex
  written,                \* bytes (JSON lexemes) each ChildStdin has received
  sent,                   \* per stream: sends that returned Ok
  nstreams,               \* ChildStdin values created so far
  kills,                  \* per turn child: outcome of the last kill() on it
  pc,                     \* per task: the suspension point it is parked at
  loc,                    \* per task: the locals live across that point
  last,                   \* the call that returned most recently
  sessions,               \* the Arc<WorkspaceSession> objects constructed
  env,                    \* the process environment and the nvm directory
  path_env                \* the last build_claude_path_env call and its result

vars == <<active_turns, active_turns_lock, child_lock, stdin, stdin_lock,
          persistent_child, persistent_child_lock, written, sent, nstreams,
          kills, pc, loc, last, sessions, env, path_env>>

turnVars == <<active_turns, active_turns_lock, child_lock>>
chanVars == <<stdin, stdin_lock, persistent_child, persistent_child_lock,
              written, sent, nstreams>>
\* what lives outside the one session whose fields are the variables above
hostVars == <<sessions, env, path_env>>

\* ------------------------------------------------------------- ActiveTurn
ActiveTurn(thread_id, turn_id, child) ==
  [thread_id |-> thread_id, turn_id |-> turn_id, child |-> child]

\* ------------------------------------------------------ HashMap operations
MapContains(m, k) == \E e \in m : e.thread_id = k
MapGet(m, k) == {e \in m : e.thread_id = k}
MapRemoveAll(m, k) == {}
MapRemove(m, k) == {e \in m : e.thread_id # k}
MapInsertKeepOld(m, e) == m \cup {e}
MapInsert(m, e) == MapRemove(m, e.thread_id) \cup {e}

\* ------------------------------------------------------------ task locals
Idle == "idle"
NoLoc == [op |-> "-", t |-> "-", x |-> "-", h |-> "-", c |-> {}, k |-> "-",
          s |-> {}, out |-> <<>>]
\* "last" describes the call that returned most recently: its arguments, its
\* result, the child it called kill() on with the kill's outcome, and the
\* entry its thread had in the map when the call locked it.
NoCall == [op |-> "none", t |-> "-", x |-> "-", res |-> "-", killed |-> {},
           outcome |-> "-", before |-> {}]
Returned(op, t, x, res, killed) ==
  [NoCall EXCEPT !.op = op, !.t = t, !.x = x, !.res = res, !.killed = killed]
ReturnedTurn(op, t, x, res, killed, outcome, before) ==
  [op |-> op, t |-> t, x |-> x, res |-> res, killed |-> killed,
   outcome |-> outcome, before |-> before]

Ok == "Ok"
ErrKill == "Err(kill)"
ErrNoStdin == "Err(No stdin available)"
ErrWrite == "Err(write)"

\* What Child::kill().await can return: the process was killed and reaped,
\* it had already exited (ErrorKind::InvalidInput), or another OS error.
KillOutcomes == {"Ok", "InvalidInput", "Other"}

\* ------------------------------------------------- track_turn (lines 37-51)
TrackTurnIfAbsent(m, thread_id, turn_id, child) ==
  IF MapContains(m, thread_id) THEN m
  ELSE MapInsert(m, ActiveTurn(thread_id, turn_id, child))
TrackTurnMap(m, thread_id, turn_id, child) ==
  MapInsert(m, ActiveTurn(thread_id, turn_id, child))

TrackTurn(p, thread_id, turn_id, child) ==
  /\ pc[p] = Idle
  /\ active_turns_lock = Free
  /\ active_turns' = TrackTurnMap(active_turns, thread_id, turn_id, child)
  /\ last' = ReturnedTurn("track_turn", thread_id, turn_id, Ok, None, "-",
                          MapGet(active_turns, thread_id))
  /\ UNCHANGED <<active_turns_lock, child_lock, chanVars, hostVars,
                 kills, pc, loc>>

\* ------------------------------------------------- clear_turn (lines 56-63)
ClearTurnAlways(m, thread_id, turn_id) == MapRemove(m, thread_id)
ClearTurnMap(m, thread_id, turn_id) ==
  IF \E active_turn \in MapGet(m, thread_id) : active_turn.turn_id = turn_id
    THEN MapRemove(m, thread_id)
    ELSE m

ClearTurn(p, thread_id, turn_id) ==
  /\ pc[p] = Idle
  /\ active_turns_lock = Free
  /\ active_turns' = ClearTurnMap(active_turns, thread_id, turn_id)
  /\ last' = ReturnedTurn("clear_turn", thread_id, turn_id, Ok, None, "-",
                          MapGet(active_turns, thread_id))
  /\ UNCHANGED <<active_turns_lock, child_lock, chanVars, hostVars,
                 kills, pc, loc>>

\* --------------------------------------------- interrupt_turn (lines 65-84)
\* Lines 70-77: remove, compare, reinsert on mismatch.  "kill" is the child
\* of the removed entry when the identifiers match.
InterruptNoReinsert(m, thread_id, turn_id) ==
  LET got == MapGet(m, thread_id)
  IN  IF got = {} THEN [map |-> m, kill |-> None]
      ELSE IF Unwrap(got).turn_id # turn_id
        THEN [map |-> MapRemove(m, thread_id), kill |-> None]
        ELSE [map |-> MapRemove(m, thread_id), kill |-> Some(Unwrap(got).child)]
InterruptKeepOnMatch(m, thread_id, turn_id) ==
  LET got == MapGet(m, thread_id)
  IN  IF got = {} THEN [map |-> m, kill |-> None]
      ELSE IF Unwrap(got).turn_id # turn_id
        THEN [map |-> m, kill |-> None]
        ELSE [map |-> m, kill |-> Some(Unwrap(got).child)]
InterruptTurnMap(m, thread_id, turn_id) ==
  LET got == MapGet(m, thread_id)
      removed == MapRemove(m, thread_id)
  IN  IF got = {} THEN [map |-> removed, kill |-> None]
      ELSE LET active_turn == Unwrap(got)
           IN  IF active_turn.turn_id # turn_id
                 THEN [map |-> MapInsert(removed, active_turn), kill |-> None]
                 ELSE [map |-> removed, kill |-> Some(active_turn.child)]

\* Lines 79-83: the match on the kill's result.
InterruptSurfaceAll(outcome) == IF outcome = "Ok" THEN Ok ELSE ErrKill
InterruptKillResult(outcome) ==
  IF outcome = "Ok" THEN Ok
  ELSE IF outcome = "InvalidInput" THEN Ok
  ELSE ErrKill

\* Line 70-77: lock the map; return at once unless the turn matches, and
\* otherwise keep the map's guard (it lives to the end of the function).
InterruptLock(p, thread_id, turn_id) ==
  /\ pc[p] = Idle
  /\ active_turns_lock = Free
  /\ LET r == InterruptTurnMap(active_turns, thread_id, turn_id)
     IN  /\ active_turns' = r.map
         /\ IF r.kill = None
              THEN /\ last' = ReturnedTurn("interrupt_turn", thread_id,
                                     turn_id, Ok, None, "-",
                                     MapGet(active_turns, thread_id))
                   /\ UNCHANGED <<active_turns_lock, pc, loc>>
              ELSE /\ active_turns_lock' = Owner(p)
                   /\ pc' = [pc EXCEPT ![p] = "interrupt_child_lock"]
                   /\ loc' = [loc EXCEPT ![p] =
                        [NoLoc EXCEPT !.op = "interrupt_turn", !.t = thread_id,
                                      !.x = turn_id, !.h = Unwrap(r.kill)]]
                   /\ UNCHANGED last
  /\ UNCHANGED <<child_lock, chanVars, hostVars, kills>>

\* Line 78: active_turn.child.lock().await
InterruptChildLock(p) ==
  /\ pc[p] = "interrupt_child_lock"
  /\ child_lock[loc[p].h] = Free
  /\ child_lock' = [child_lock EXCEPT ![loc[p].h] = Owner(p)]
  /\ pc' = [pc EXCEPT ![p] = "interrupt_kill"]
  /\ UNCHANGED <<active_turns, active_turns_lock, chanVars, hostVars,
                 kills, loc, last>>

\* Lines 79-84: child.kill().await returns; both guards drop.
InterruptKill(p, outcome) ==
  /\ pc[p] = "interrupt_kill"
  /\ kills' = [kills EXCEPT ![loc[p].h] = outcome]
  /\ child_lock' = [child_lock EXCEPT ![loc[p].h] = Free]
  /\ active_turns_lock' = Free
  /\ pc' = [pc EXCEPT ![p] = Idle]
  /\ loc' = [loc EXCEPT ![p] = NoLoc]
  /\ last' = ReturnedTurn("interrupt_turn", loc[p].t, loc[p].x,
                          InterruptKillResult(outcome), Some(loc[p].h), outcome,
                          {ActiveTurn(loc[p].t, loc[p].x, loc[p].h)})
  /\ UNCHANGED <<active_turns, chanVars, hostVars>>

\* The caller of track_turn keeps a clone of the Arc<Mutex<Child>> (line 41)
\* and may lock it itself, for as long as it likes.
CallerLockChild(h) ==
  /\ child_lock[h] = Free
  /\ child_lock' = [child_lock EXCEPT ![h] = Caller]
  /\ UNCHANGED <<active_turns, active_turns_lock, chanVars, hostVars,
                 kills, pc, loc, last>>

CallerUnlockChild(h) ==
  /\ child_lock[h] = Caller
  /\ child_lock' = [child_lock EXCEPT ![h] = Free]
  /\ UNCHANGED <<active_turns, active_turns_lock, chanVars, hostVars,
                 kills, pc, loc, last>>

\* ------------------------------------------------------- the two envelopes
Quote(text) == "\"" \o text \o "\""
Newline == "\n"

\* serde_json::to_string of the json! value of lines 148-154, as JSON lexemes
MessageJson(message) ==
  << "{", "\"type\"", ":", "\"user\"", ",",
          "\"message\"", ":", "{", "\"role\"", ":", "\"user\"", ",",
                                   "\"content\"", ":", Quote(message), "}", "}" >>

\* serde_json::to_string of the json! value of lines 114-124
ResponseJson(tool_use_id, result) ==
  << "{", "\"type\"", ":", "\"user\"", ",",
          "\"message\"", ":", "{", "\"role\"", ":", "\"user\"", ",",
             "\"content\"", ":", "[", "{", "\"type\"", ":", "\"tool_result\"", ",",
                                           "\"tool_use_id\"", ":", Quote(tool_use_id), ",",
                                           "\"content\"", ":", result, "}", "]",
          "}", "}" >>

\* line.push('\n') (lines 127, 157); write_all hands the bytes to the pipe
\* in one or more writes: here the text, then the terminator.
LineNoNewline(json) == << json >>
LineChunks(json) == << json, << Newline >> >>

Bodies(w) == Cardinality({i \in DOMAIN w : w[i] = "\"message\""})
RECURSIVE SumOver(_, _)
SumOver(f, S) ==
  IF S = {} THEN 0
  ELSE LET s == CHOOSE s \in S : TRUE IN f[s] + SumOver(f, S \ {s})
\* envelopes handed to write_all so far, over every stream
TotalBodies(ws) == SumOver([s \in Streams |-> Bodies(ws[s])], Streams)
NewlineCount(w) == Cardinality({i \in DOMAIN w : w[i] = Newline})

\* ------------------------ send_message / send_response (lines 103-163)
\* Lines 108-111, 143-146: lock stdin; no stream is an error.
SendNoStdin(o) == o = None

SendLock(p, op, json) ==
  /\ pc[p] = Idle
  /\ stdin_lock = Free
  /\ IF SendNoStdin(stdin)
       THEN /\ last' = Returned(op, "-", "-", ErrNoStdin, None)
            /\ UNCHANGED <<stdin_lock, pc, loc>>
       ELSE /\ TotalBodies(written) < MaxSends
            /\ stdin_lock' = Owner(p)
            /\ pc' = [pc EXCEPT ![p] = "send_write"]
            /\ loc' = [loc EXCEPT ![p] =
                 [NoLoc EXCEPT !.op = op, !.s = stdin, !.out = LineChunks(json)]]
            /\ UNCHANGED last
  /\ UNCHANGED <<turnVars, hostVars, kills, stdin, persistent_child,
                 persistent_child_lock, written, sent, nstreams>>

SendMessage(p, message) == SendLock(p, "send_message", MessageJson(message))

SendResponse(p, tool_use_id, result) ==
  SendLock(p, "send_response", ResponseJson(tool_use_id, result))

\* Lines 129-132, 159-162: write_all makes progress, and returns Ok once
\* every byte is written.
SendWrite(p) ==
  /\ pc[p] = "send_write"
  /\ loc[p].out # <<>>
  /\ LET s == Unwrap(loc[p].s)
         rest == Tail(loc[p].out)
     IN  /\ written' = [written EXCEPT ![s] = @ \o Head(loc[p].out)]
         /\ IF rest = <<>>
              THEN /\ sent' = [sent EXCEPT ![s] = @ + 1]
                   /\ stdin_lock' = Free
                   /\ pc' = [pc EXCEPT ![p] = Idle]
                   /\ loc' = [loc EXCEPT ![p] = NoLoc]
                   /\ last' = Returned(loc[p].op, "-", "-", Ok, None)
              ELSE /\ loc' = [loc EXCEPT ![p].out = rest]
                   /\ UNCHANGED <<sent, stdin_lock, pc, last>>
  /\ UNCHANGED <<turnVars, hostVars, kills, stdin, persistent_child,
                 persistent_child_lock, nstreams>>

\* write_all fails with an I/O error (map_err, lines 132, 162).
SendWriteFail(p) ==
  /\ pc[p] = "send_write"
  /\ stdin_lock' = Free
  /\ pc' = [pc EXCEPT ![p] = Idle]
  /\ loc' = [loc EXCEPT ![p] = NoLoc]
  /\ last' = Returned(loc[p].op, "-", "-", ErrWrite, None)
  /\ UNCHANGED <<turnVars, hostVars, kills, stdin, persistent_child,
                 persistent_child_lock, written, sent, nstreams>>

\* ------------------------------------------------ set_stdin (lines 167-170)
SetStdin(p) ==
  /\ pc[p] = Idle
  /\ stdin_lock = Free
  /\ nstreams < MaxStreams
  /\ nstreams' = nstreams + 1
  /\ stdin' = Some(nstreams + 1)
  /\ last' = Returned("set_stdin", "-", "-", Ok, None)
  /\ UNCHANGED <<turnVars, hostVars, kills, stdin_lock, persistent_child,
                 persistent_child_lock, written, sent, pc,
                 loc>>

\* ------------------------------------- set_persistent_child (lines 174-177)
SetPersistentChild(p) ==
  /\ pc[p] = Idle
  /\ persistent_child_lock = Free
  /\ persistent_child' = Some(TheChild)
  /\ last' = Returned("set_persistent_child", "-", "-", Ok, None)
  /\ UNCHANGED <<turnVars, hostVars,
                 kills, stdin, stdin_lock, persistent_child_lock,
                 written, sent, nstreams, pc, loc>>

\* ----------------------------------- has_persistent_session (lines 181-183)
IsSomeNegated(o) == IF o = None THEN "true" ELSE "false"
IsSome(o) == IF o # None THEN "true" ELSE "false"

HasPersistentSession(p) ==
  /\ pc[p] = Idle
  /\ stdin_lock = Free
  /\ last' = Returned("has_persistent_session", "-", "-", IsSome(stdin), None)
  /\ UNCHANGED <<turnVars, hostVars, chanVars, kills, pc, loc>>

\* ---------------------------------- kill_persistent_session (lines 187-197)
\* Line 193: kill().await.map_err(..)? returns from the function on any Err.
KillPersistentResult(outcome) == IF outcome = "Ok" THEN Ok ELSE ErrKill

\* Line 195: *self.stdin.lock().await = None
KillKeepStdin(o) == o
KillClearStdin(o) == None

\* Line 189: lock stdin; with a stream installed, flush it under the guard.
KillFlushLock(p) ==
  /\ pc[p] = Idle
  /\ stdin_lock = Free
  /\ loc' = [loc EXCEPT ![p] = [NoLoc EXCEPT !.op = "kill_persistent_session"]]
  /\ IF stdin # None
       THEN /\ stdin_lock' = Owner(p)
            /\ pc' = [pc EXCEPT ![p] = "kill_flush"]
       ELSE /\ pc' = [pc EXCEPT ![p] = "kill_take"]
            /\ UNCHANGED stdin_lock
  /\ UNCHANGED <<turnVars, hostVars, kills, stdin, persistent_child,
                 persistent_child_lock, written, sent, nstreams, last>>

\* Line 190: flush().await returns; its result is dropped (let _ =).
KillFlushKeepGuard(p) ==
  /\ pc[p] = "kill_flush"
  /\ pc' = [pc EXCEPT ![p] = "kill_take"]
  /\ UNCHANGED <<turnVars, hostVars, kills, stdin, stdin_lock,
                 persistent_child, persistent_child_lock, written, sent,
                 nstreams, loc, last>>
KillFlushDone(p) ==
  /\ pc[p] = "kill_flush"
  /\ stdin_lock' = Free
  /\ pc' = [pc EXCEPT ![p] = "kill_take"]
  /\ UNCHANGED <<turnVars, hostVars, kills, stdin, persistent_child,
                 persistent_child_lock, written, sent, nstreams, loc, last>>

\* Line 192: lock persistent_child and take() it.
KillTake(p) ==
  /\ pc[p] = "kill_take"
  /\ persistent_child_lock = Free
  /\ persistent_child' = None
  /\ IF persistent_child # None
       THEN /\ persistent_child_lock' = Owner(p)
            /\ loc' = [loc EXCEPT ![p].c = persistent_child]
            /\ pc' = [pc EXCEPT ![p] = "kill_child"]
       ELSE /\ pc' = [pc EXCEPT ![p] = "kill_clear"]
            /\ UNCHANGED <<persistent_child_lock, loc>>
  /\ UNCHANGED <<turnVars, hostVars,
                 kills, stdin, stdin_lock, written, sent, nstreams, last>>

\* Line 193: child.kill().await returns; the guard drops with the if-let.
KillChild(p, outcome) ==
  /\ pc[p] = "kill_child"
  /\ persistent_child_lock' = Free
  /\ IF KillPersistentResult(outcome) = Ok
       THEN /\ pc' = [pc EXCEPT ![p] = "kill_clear"]
            /\ loc' = [loc EXCEPT ![p].k = outcome]
            /\ UNCHANGED last
       ELSE /\ pc' = [pc EXCEPT ![p] = Idle]
            /\ loc' = [loc EXCEPT ![p] = NoLoc]
            /\ last' = ReturnedTurn("kill_persistent_session", "-", "-",
                                    KillPersistentResult(outcome), None,
                                    outcome, {})
  /\ UNCHANGED <<turnVars, hostVars,
                 kills, stdin, stdin_lock, persistent_child, written,
                 sent, nstreams>>

\* Lines 195-196: clear stdin and return Ok.
KillClear(p) ==
  /\ pc[p] = "kill_clear"
  /\ stdin_lock = Free
  /\ stdin' = KillClearStdin(stdin)
  /\ pc' = [pc EXCEPT ![p] = Idle]
  /\ loc' = [loc EXCEPT ![p] = NoLoc]
  /\ last' = ReturnedTurn("kill_persistent_session", "-", "-", Ok, None,
                          loc[p].k, {})
  /\ UNCHANGED <<turnVars, hostVars, kills, stdin_lock, persistent_child,
                 persistent_child_lock, written, sent, nstreams>>

\* The binaries, workspace entries and default binaries the calls are given.
ClaudeBins ==
  {None, Some(" "), Some("claude"), Some("/"), Some("/usr/local/bin/claude"),
   Some("/opt/claude/bin/claude")}
Entries ==
  {[id |-> "w1", claude_bin |-> None], [id |-> "w1", claude_bin |-> Some(" ")],
   [id |-> "w2", claude_bin |-> Some("/opt/claude/bin/claude")]}
DefaultBins == {None, Some("claude")}

\* ---------------------------------- build_claude_path_env (lines 200-249)
\* A colon-separated list is kept as the sequence of its segments, so that
\* split(':') and join(":") are the identity on it; an unset variable reads
\* as the empty string (unwrap_or_default), whose only segment is "".
NoEnv == [PATH |-> None, HOME |-> None, nvm |-> <<>>]
NoPathCall == [called |-> FALSE, claude_bin |-> None, result |-> None]
Segments(var) == IF var = None THEN << "" >> ELSE Unwrap(var)
NonEmpty(value) == value # ""
Contains(paths, value) == \E i \in DOMAIN paths : paths[i] = value

\* value.trim().is_empty(), on the binary names used here
IsBlank(value) == value \in {"", " ", "  "}

\* Path::new(bin_path).parent(), on the binary names used here
Parent(bin_path) ==
  IF bin_path = "/" THEN None
  ELSE IF bin_path = "claude" THEN Some("")
  ELSE IF bin_path = "/usr/local/bin/claude" THEN Some("/usr/local/bin")
  ELSE Some("/opt/claude/bin")

\* Lines 207-217
FixedExtras ==
  << "/opt/homebrew/bin", "/usr/local/bin", "/usr/bin", "/bin", "/usr/sbin",
     "/sbin" >>
\* Lines 218-232
HomeExtras(e) ==
  IF e.HOME = None THEN << >>
  ELSE LET home == Unwrap(e.HOME)
       IN  << home \o "/.local/bin", home \o "/.local/share/mise/shims",
              home \o "/.cargo/bin", home \o "/.bun/bin" >>
           \o [i \in 1..Len(e.nvm) |->
                 home \o "/.nvm/versions/node/" \o e.nvm[i] \o "/bin"]
\* Lines 233-238
BinExtras(claude_bin) ==
  IF claude_bin = None \/ IsBlank(Unwrap(claude_bin)) THEN << >>
  ELSE LET parent == Parent(Unwrap(claude_bin))
       IN  IF parent = None THEN << >> ELSE << Unwrap(parent) >>

\* Lines 239-243
RECURSIVE PushAll(_, _)
PushAll(paths, extras) ==
  IF extras = << >> THEN paths
  ELSE PushAll(Append(paths, Head(extras)), Tail(extras))
RECURSIVE PushMissing(_, _)
PushMissing(paths, extras) ==
  IF extras = << >> THEN paths
  ELSE PushMissing(IF ~Contains(paths, Head(extras))
                     THEN Append(paths, Head(extras))
                     ELSE paths,
                   Tail(extras))

BuildClaudePathEnv(e, claude_bin) ==
  LET paths == SelectSeq(Segments(e.PATH), NonEmpty)
      extras == FixedExtras \o HomeExtras(e) \o BinExtras(claude_bin)
      all == PushMissing(paths, extras)
  IN  IF all = << >> THEN None ELSE Some(all)

PathCall(e, claude_bin) ==
  [called |-> TRUE, claude_bin |-> claude_bin,
   result |-> BuildClaudePathEnv(e, claude_bin)]

\* A call of build_claude_path_env on its own.
BuildPath(claude_bin) ==
  /\ \A p \in Tasks : pc[p] = Idle
  /\ path_env' = PathCall(env, claude_bin)
  /\ UNCHANGED <<turnVars, chanVars, kills, pc, loc, last, sessions, env>>

\* ------------------------------ check_claude_installation (lines 263-309)
\* How `claude --version` can end: with or without a version on stdout, not
\* found, another spawn error, the 5 s timeout, a non-zero exit without or
\* with a message.
CheckOutcomes ==
  {"Version", "NoVersion", "NotFound", "IoError", "TimedOut", "ExitSilent",
   "ExitDetail"}
CheckAlwaysOk(outcome) == Ok
CheckResult(outcome) ==
  IF outcome \in {"Version", "NoVersion"} THEN Ok
  ELSE IF outcome = "NotFound" THEN "Err(Claude Code CLI not found)"
  ELSE IF outcome = "IoError" THEN "Err(io)"
  ELSE IF outcome = "TimedOut" THEN "Err(Timed out)"
  ELSE IF outcome = "ExitSilent" THEN "Err(failed to start)"
  ELSE "Err(failed to start: detail)"

\* ------------------------------- spawn_workspace_session (lines 311-330)
\* Lines 315-319
ResolveBin(entry_bin, default_claude_bin) ==
  IF entry_bin # None /\ ~IsBlank(Unwrap(entry_bin)) THEN entry_bin
  ELSE default_claude_bin

\* Lines 322-329; "arc" is the identity of the allocation.
WorkspaceSession(arc, entry, claude_bin) ==
  [arc |-> arc, entry |-> entry, claude_bin |-> claude_bin,
   active_turns |-> {}, stdin |-> None, persistent_child |-> None,
   session_init_lock |-> Free]

Spawning == {p \in Tasks : pc[p] = "spawn_check"}

\* Lines 315-320: resolve the binary, start `claude --version` (its PATH
\* comes from build_claude_path_env) and wait for it.
SpawnBegin(p, entry, default_claude_bin) ==
  /\ pc[p] = Idle
  /\ Cardinality(sessions) + Cardinality(Spawning) < MaxSessions
  /\ LET claude_bin == ResolveBin(entry.claude_bin, default_claude_bin)
     IN  /\ pc' = [pc EXCEPT ![p] = "spawn_check"]
         /\ loc' = [loc EXCEPT ![p] =
              [NoLoc EXCEPT !.op = "spawn_workspace_session", !.t = entry.id,
                            !.x = entry.claude_bin, !.c = claude_bin]]
         /\ path_env' = PathCall(env, claude_bin)
  /\ UNCHANGED <<turnVars, chanVars, kills, last, sessions, env>>

\* Lines 320-329: the check returns; `?` ends the call on an error, and
\* otherwise the session is constructed.
SpawnCheckDone(p, outcome) ==
  /\ pc[p] = "spawn_check"
  /\ LET res == CheckResult(outcome)
         entry == [id |-> loc[p].t, claude_bin |-> loc[p].x]
     IN  /\ sessions' =
              IF res = Ok
                THEN sessions \cup
                       {WorkspaceSession(Cardinality(sessions) + 1, entry,
                                         loc[p].c)}
                ELSE sessions
         /\ last' = ReturnedTurn("spawn_workspace_session", loc[p].t, "-",
                                 res, None, outcome, None)
  /\ pc' = [pc EXCEPT ![p] = Idle]
  /\ loc' = [loc EXCEPT ![p] = NoLoc]
  /\ UNCHANGED <<turnVars, chanVars, kills, env, path_env>>

\* ------------------------------------------------------ the initial states
\* The fields of a session as lines 322-329 construct them.
SessionInit ==
  /\ active_turns = {}
  /\ active_turns_lock = Free
  /\ child_lock = [h \in Handles |-> Free]
  /\ stdin = None
  /\ stdin_lock = Free
  /\ persistent_child = None
  /\ persistent_child_lock = Free
  /\ written = [s \in Streams |-> <<>>]
  /\ sent = [s \in Streams |-> 0]
  /\ nstreams = 0
  /\ kills = [h \in Handles |-> "none"]
  /\ pc = [p \in Tasks |-> Idle]
  /\ loc = [p \in Tasks |-> NoLoc]
  /\ last = NoCall
  /\ sessions = {}
  /\ path_env = NoPathCall

Init == SessionInit /\ env = NoEnv

\* The environments build_claude_path_env is run in.
PathValues ==
  {None} \cup {Some(s) : s \in UNION {[1..n -> PathSegments] : n \in 1..MaxPathLen}}
Envs ==
  [PATH : PathValues, HOME : {None, Some("/home/u")},
   nvm : {<< >>, << "v20" >>}]
InitPath == SessionInit /\ env \in Envs

\* what task p can do next on the turn tracker
TurnStep(p) ==
  \/ \E t \in Threads, x \in TurnIds, h \in Handles : TrackTurn(p, t, x, h)
  \/ \E t \in Threads, x \in TurnIds : ClearTurn(p, t, x)
  \/ \E t \in Threads, x \in TurnIds : InterruptLock(p, t, x)
  \/ InterruptChildLock(p)
  \/ \E o \in KillOutcomes : InterruptKill(p, o)

\* what task p can do next on the persistent channel
ChanStep(p) ==
  \/ \E m \in Texts : SendMessage(p, m)
  \/ \E id \in ToolUseIds, r \in ResultValues : SendResponse(p, id, r)
  \/ SendWrite(p)
  \/ SendWriteFail(p)
  \/ SetStdin(p)
  \/ SetPersistentChild(p)
  \/ HasPersistentSession(p)
  \/ KillFlushLock(p)
  \/ KillFlushDone(p)
  \/ KillTake(p)
  \/ \E o \in KillOutcomes : KillChild(p, o)
  \/ KillClear(p)

TurnNext ==
  \/ \E p \in Tasks : TurnStep(p)
  \/ \E h \in Handles : CallerLockChild(h)
  \/ \E h \in Handles : CallerUnlockChild(h)

ChanNext == \E p \in Tasks : ChanStep(p)

SpawnNext ==
  \/ \E p \in Tasks, entry \in Entries, d \in DefaultBins :
       SpawnBegin(p, entry, d)
  \/ \E p \in Tasks, o \in CheckOutcomes : SpawnCheckDone(p, o)

PathNext == \E claude_bin \in ClaudeBins : BuildPath(claude_bin)

Next == TurnNext \/ ChanNext \/ SpawnNext \/ PathNext

\* Every task of the session, running concurrently.
Spec == Init /\ [][Next]_vars

\* The turn tracker alone, its tasks running concurrently.
SpecTurns == Init /\ [][TurnNext]_vars

\* The persistent channel alone, its tasks running concurrently.
SpecChan == Init /\ [][ChanNext]_vars

\* The persistent channel with its calls made one after the other: a task
\* takes a step only while every other task is between calls.
OthersIdle(p) == \A q \in Tasks \ {p} : pc[q] = Idle
ChanSeqNext ==
  \/ \E p \in Tasks, m \in Texts : OthersIdle(p) /\ SendMessage(p, m)
  \/ \E p \in Tasks, id \in ToolUseIds, r \in ResultValues :
       OthersIdle(p) /\ SendResponse(p, id, r)
  \/ \E p \in Tasks : OthersIdle(p) /\ SendWrite(p)
  \/ \E p \in Tasks : OthersIdle(p) /\ SendWriteFail(p)
  \/ \E p \in Tasks : OthersIdle(p) /\ SetStdin(p)
  \/ \E p \in Tasks : OthersIdle(p) /\ SetPersistentChild(p)
  \/ \E p \in Tasks : OthersIdle(p) /\ HasPersistentSession(p)
  \/ \E p \in Tasks : OthersIdle(p) /\ KillFlushLock(p)
  \/ \E p \in Tasks : OthersIdle(p) /\ KillFlushDone(p)
  \/ \E p \in Tasks : OthersIdle(p) /\ KillTake(p)
  \/ \E p \in Tasks, o \in KillOutcomes : OthersIdle(p) /\ KillChild(p, o)
  \/ \E p \in Tasks : OthersIdle(p) /\ KillClear(p)
SpecChanSeq == Init /\ [][ChanSeqNext]_vars

\* The whole session, its tasks running concurrently on one thread's turn
\* and one stream, under the scheduling the runtime gives: a parked task is
\* resumed when its kill, write or flush returns (they all return), tokio's
\* mutex is fair, so a task waiting for a lock gets it once it is released
\* often enough, and the other owner of a child lock lets go of it.
LiveNext ==
  \/ \E p \in Tasks : TrackTurn(p, "t1", "A", "h1")
  \/ \E p \in Tasks : ClearTurn(p, "t1", "A")
  \/ \E p \in Tasks : InterruptLock(p, "t1", "A")
  \/ \E p \in Tasks : InterruptChildLock(p)
  \/ \E p \in Tasks, o \in KillOutcomes : InterruptKill(p, o)
  \/ CallerLockChild("h1")
  \/ CallerUnlockChild("h1")
  \/ \E p \in Tasks, m \in Texts :
       TotalBodies(written) < LiveSends /\ SendMessage(p, m)
  \/ \E p \in Tasks : SendWrite(p)
  \/ \E p \in Tasks : SendWriteFail(p)
  \/ \E p \in Tasks : nstreams < LiveStreams /\ SetStdin(p)
  \/ \E p \in Tasks : SetPersistentChild(p)
  \/ \E p \in Tasks : KillFlushLock(p)
  \/ \E p \in Tasks : KillFlushDone(p)
  \/ \E p \in Tasks : KillTake(p)
  \/ \E p \in Tasks, o \in KillOutcomes : KillChild(p, o)
  \/ \E p \in Tasks : KillClear(p)
LiveFairness ==
  /\ \A p \in Tasks :
       /\ SF_vars(InterruptChildLock(p))
       /\ WF_vars(\E o \in KillOutcomes : InterruptKill(p, o))
       /\ WF_vars(SendWrite(p) \/ SendWriteFail(p))
       /\ WF_vars(KillFlushDone(p))
       /\ SF_vars(KillTake(p))
       /\ WF_vars(\E o \in KillOutcomes : KillChild(p, o))
       /\ SF_vars(KillClear(p))
  /\ \A h \in Handles : WF_vars(CallerUnlockChild(h))
SpecLive == Init /\ [][LiveNext]_vars /\ LiveFairness

\* The whole session with its calls made one after the other, on two
\* threads and one stream.
FrameNext ==
  \/ \E p \in Tasks, t \in Threads, h \in Handles :
       OthersIdle(p) /\ TrackTurn(p, t, "A", h)
  \/ \E p \in Tasks, t \in Threads : OthersIdle(p) /\ ClearTurn(p, t, "A")
  \/ \E p \in Tasks, t \in Threads : OthersIdle(p) /\ InterruptLock(p, t, "A")
  \/ \E p \in Tasks : OthersIdle(p) /\ InterruptChildLock(p)
  \/ \E p \in Tasks, o \in KillOutcomes : OthersIdle(p) /\ InterruptKill(p, o)
  \/ \E p \in Tasks, m \in Texts :
       OthersIdle(p) /\ TotalBodies(written) < LiveSends /\ SendMessage(p, m)
  \/ \E p \in Tasks, id \in ToolUseIds, r \in ResultValues :
       /\ OthersIdle(p)
       /\ TotalBodies(written) < LiveSends
       /\ SendResponse(p, id, r)
  \/ \E p \in Tasks : OthersIdle(p) /\ SendWrite(p)
  \/ \E p \in Tasks : OthersIdle(p) /\ SendWriteFail(p)
  \/ \E p \in Tasks : OthersIdle(p) /\ nstreams < LiveStreams /\ SetStdin(p)
  \/ \E p \in Tasks : OthersIdle(p) /\ SetPersistentChild(p)
  \/ \E p \in Tasks : OthersIdle(p) /\ HasPersistentSession(p)
  \/ \E p \in Tasks : OthersIdle(p) /\ KillFlushLock(p)
  \/ \E p \in Tasks : OthersIdle(p) /\ KillFlushDone(p)
  \/ \E p \in Tasks : OthersIdle(p) /\ KillTake(p)
  \/ \E p \in Tasks, o \in KillOutcomes : OthersIdle(p) /\ KillChild(p, o)
  \/ \E p \in Tasks : OthersIdle(p) /\ KillClear(p)
SpecFrame == Init /\ [][FrameNext]_vars

\* Requests for a session, running concurrently.
SpecSpawn == Init /\ [][SpawnNext]_vars

\* build_claude_path_env, called in any environment with any binary.
SpecPath == InitPath /\ [][PathNext]_vars

\* =================================================================== claims

\* C1: an interrupt_turn(t, x) that finds no entry for thread t, or an entry
\* whose turn id differs from x, returns Ok at once, calls kill() on no child
\* and leaves the map, the kill record and every lock exactly as they were,
\* whatever the other tasks are doing.
C1_StaleInterruptIsNoOp ==
  [][\A p \in Tasks, t \in Threads, x \in TurnIds :
       (InterruptLock(p, t, x)
          /\ \A e \in MapGet(active_turns, t) : e.turn_id # x)
       => /\ active_turns' = active_turns
          /\ kills' = kills
          /\ child_lock' = child_lock
          /\ active_turns_lock' = Free
          /\ pc'[p] = Idle
          /\ last'.op = "interrupt_turn"
          /\ last'.res = Ok
          /\ last'.killed = None]_vars

\* A late interrupt_turn(t1, A) has returned while t1's entry was (B, h2): the
\* entry is still there and h2 was never killed.
C1_Witness ==
  /\ last.op = "interrupt_turn"
  /\ last.t = "t1"
  /\ last.x = "A"
  /\ last.res = Ok
  /\ last.killed = None
  /\ last.before = {ActiveTurn("t1", "B", "h2")}
  /\ ActiveTurn("t1", "B", "h2") \in active_turns
  /\ kills["h2"] = "none"

\* C2: when thread t's entry is (a, h), interrupt_turn(t, a) takes the entry
\* out of the map and keeps h; the thread has no entry from then until the
\* call returns; and the call returns after kill() on h and on no other child,
\* with the other threads' entries untouched.
C2_MatchingInterruptKills ==
  /\ [][\A p \in Tasks, t \in Threads, x \in TurnIds :
          (InterruptLock(p, t, x)
             /\ \E e \in MapGet(active_turns, t) : e.turn_id = x)
          => /\ ~MapContains(active_turns', t)
             /\ MapRemove(active_turns', t) = MapRemove(active_turns, t)
             /\ pc'[p] = "interrupt_child_lock"
             /\ loc'[p].t = t
             /\ \E e \in MapGet(active_turns, t) : loc'[p].h = e.child
             /\ kills' = kills]_vars
  /\ [](\A p \in Tasks :
          pc[p] \in {"interrupt_child_lock", "interrupt_kill"}
            => ~MapContains(active_turns, loc[p].t))
  /\ [][\A p \in Tasks :
          (pc[p] \in {"interrupt_child_lock", "interrupt_kill"} /\ pc'[p] = Idle)
          => /\ pc[p] = "interrupt_kill"
             /\ child_lock[loc[p].h] = Owner(p)
             /\ kills'[loc[p].h] \in KillOutcomes
             /\ \A g \in Handles \ {loc[p].h} : kills'[g] = kills[g]
             /\ last'.op = "interrupt_turn"
             /\ last'.killed = Some(loc[p].h)
             /\ active_turns' = active_turns
             /\ ~MapContains(active_turns', loc[p].t)]_vars

\* interrupt_turn(t1, A) has returned after killing h1, the child of t1's
\* entry (A, h1); t1 has no entry, and t2's entry and child h2 are untouched.
C2_Witness ==
  /\ last.op = "interrupt_turn"
  /\ last.before = {ActiveTurn("t1", "A", "h1")}
  /\ last.killed = Some("h1")
  /\ kills["h1"] = "Ok"
  /\ ~MapContains(active_turns, "t1")
  /\ ActiveTurn("t2", "A", "h2") \in active_turns
  /\ kills["h2"] = "none"

\* C3: clear_turn(t, x) removes thread t's entry exactly when the entry's
\* turn id is x and otherwise leaves the map unchanged; it returns Ok, calls
\* kill() on nothing, and clearing a second time changes nothing more.
C3_ClearRemovesOnlyItsTurn ==
  [][\A p \in Tasks, t \in Threads, x \in TurnIds :
       ClearTurn(p, t, x)
       => LET hit == \E e \in active_turns : e.thread_id = t /\ e.turn_id = x
          IN  /\ hit => active_turns' = {e \in active_turns : e.thread_id # t}
              /\ ~hit => active_turns' = active_turns
              /\ kills' = kills
              /\ child_lock' = child_lock
              /\ active_turns_lock' = Free
              /\ pc'[p] = Idle
              /\ last'.op = "clear_turn"
              /\ last'.res = Ok
              /\ last'.killed = None
              /\ ClearTurnMap(active_turns', t, x) = active_turns']_vars

\* clear_turn(t1, A) has returned after finding (A, h1): the entry is gone,
\* h1 was not killed, and t2's entry with another turn id is still there.
C3_Witness ==
  /\ last.op = "clear_turn"
  /\ last.t = "t1"
  /\ last.x = "A"
  /\ last.before = {ActiveTurn("t1", "A", "h1")}
  /\ ~MapContains(active_turns, "t1")
  /\ kills["h1"] = "none"
  /\ ActiveTurn("t2", "B", "h2") \in active_turns

\* C4: track_turn(t, b, h2) runs whether or not t has an entry; afterwards t
\* has exactly the entry (b, h2), the other threads' entries are unchanged
\* and no child, the replaced entry's included, was killed or locked.  The
\* map never holds two entries for one thread.
C4_TrackOverwrites ==
  /\ [](\A t \in Threads : Cardinality(MapGet(active_turns, t)) <= 1)
  /\ [][\A p \in Tasks, t \in Threads, x \in TurnIds, h \in Handles :
          TrackTurn(p, t, x, h)
          => /\ MapGet(active_turns', t) = {ActiveTurn(t, x, h)}
             /\ MapRemove(active_turns', t) = MapRemove(active_turns, t)
             /\ kills' = kills
             /\ child_lock' = child_lock
             /\ pc'[p] = Idle
             /\ last'.op = "track_turn"
             /\ last'.res = Ok
             /\ last'.killed = None]_vars

\* track_turn(t1, B, h2) has returned after overwriting (A, h1): the entry
\* is (B, h2) and h1 was not killed.
C4_Witness ==
  /\ last.op = "track_turn"
  /\ last.before = {ActiveTurn("t1", "A", "h1")}
  /\ MapGet(active_turns, "t1") = {ActiveTurn("t1", "B", "h2")}
  /\ kills["h1"] = "none"

\* C5: an interrupt_turn that called kill() returns Ok when the kill
\* succeeded or failed with InvalidInput (the process had already exited),
\* and returns the error when the kill failed in any other way.
C5_InterruptKillErrors ==
  (last.op = "interrupt_turn" /\ last.killed # None)
    => /\ last.outcome \in KillOutcomes
       /\ last.outcome \in {"Ok", "InvalidInput"} => last.res = Ok
       /\ last.outcome = "Other" => last.res = ErrKill

\* interrupt_turn has returned Ok although its kill() failed with
\* InvalidInput.
C5_Witness ==
  /\ last.op = "interrupt_turn"
  /\ last.killed # None
  /\ last.outcome = "InvalidInput"
  /\ last.res = Ok

\* C6: whenever kill_persistent_session has returned, with Ok or with an
\* error, and no other call ran meanwhile, neither a stream nor a process
\* handle is installed (has_persistent_session is false).
C6_ShutdownAlwaysClears ==
  last.op = "kill_persistent_session"
    => (stdin = None /\ persistent_child = None)

\* a step of kill_persistent_session run by task p
KillStep(p) ==
  \/ KillFlushLock(p)
  \/ KillFlushDone(p)
  \/ KillTake(p)
  \/ KillClear(p)
  \/ \E o \in KillOutcomes : KillChild(p, o)

\* C7: a kill_persistent_session whose kill does not fail returns Ok and
\* leaves no stream and no process handle; a kill_persistent_session that
\* follows another one directly finds nothing to kill, so it returns Ok too;
\* and with nothing installed the call changes no state and returns Ok.
C7_ShutdownIdempotent ==
  /\ [][\A p \in Tasks :
          (KillClear(p) \/ KillChild(p, "Ok"))
          => /\ pc'[p] = Idle => (last'.op = "kill_persistent_session"
                                   /\ last'.res = Ok)
             /\ pc'[p] = Idle => (stdin' = None /\ persistent_child' = None)
             /\ pc'[p] # Idle => pc'[p] = "kill_clear"]_vars
  /\ [](last.op = "kill_persistent_session"
          => /\ persistent_child = None
             /\ \A p \in Tasks : pc[p] # "kill_child")
  /\ [][\A p \in Tasks :
          (KillStep(p) /\ stdin = None /\ persistent_child = None
             /\ pc[p] # "kill_child")
          => /\ stdin' = None
             /\ persistent_child' = None
             /\ written' = written
             /\ sent' = sent
             /\ pc'[p] \in {Idle, "kill_take", "kill_clear"}
             /\ pc'[p] = Idle => (last'.op = "kill_persistent_session"
                                   /\ last'.res = Ok)]_vars

\* A kill_persistent_session returned Ok after killing the installed process
\* and clearing the installed stream, and the next call, again a
\* kill_persistent_session, has found nothing to flush or kill and is at its
\* last step.
C7_Witness ==
  /\ last.op = "kill_persistent_session"
  /\ last.res = Ok
  /\ last.outcome = "Ok"
  /\ nstreams > 0
  /\ stdin = None
  /\ persistent_child = None
  /\ \E p \in Tasks : pc[p] = "kill_clear" /\ loc[p].k = "-"

\* C8: a kill_persistent_session whose kill() failed with InvalidInput (the
\* process had already exited) returns Ok.
C8_ShutdownAbsorbsExited ==
  (last.op = "kill_persistent_session" /\ last.outcome = "InvalidInput")
    => last.res = Ok

\* C9: has_persistent_session returns true exactly when a stream is
\* installed; send_message and send_response with no stream installed
\* return the no-stdin error at once, write nothing, and leave the stream,
\* the process handle, the turn map and every lock as they were.
C9_NoStreamNoSend ==
  [][\A p \in Tasks :
       /\ HasPersistentSession(p)
            => /\ last'.op = "has_persistent_session"
               /\ last'.res = "true" <=> stdin # None
               /\ last'.res = "false" <=> stdin = None
       /\ ((\/ \E m \in Texts : SendMessage(p, m)
             \/ \E id \in ToolUseIds, r \in ResultValues :
                  SendResponse(p, id, r))
            /\ stdin = None)
            => /\ last'.op \in {"send_message", "send_response"}
               /\ last'.res = ErrNoStdin
               /\ written' = written
               /\ sent' = sent
               /\ stdin' = None
               /\ persistent_child' = persistent_child
               /\ active_turns' = active_turns
               /\ stdin_lock' = Free
               /\ persistent_child_lock' = persistent_child_lock
               /\ active_turns_lock' = active_turns_lock
               /\ pc'[p] = Idle]_vars

\* send_message failed with the no-stdin error on a session whose stream,
\* after one successful send, was cleared by kill_persistent_session.
C9_Witness ==
  /\ last.op = "send_message"
  /\ last.res = ErrNoStdin
  /\ nstreams = 1
  /\ sent[1] = 1
  /\ stdin = None
  /\ \A p \in Tasks : pc[p] = Idle

\* The envelopes as the protocol wants them, newline included.
UserEnvelopeLine(content) ==
  << "{", "\"type\"", ":", "\"user\"", ",", "\"message\"", ":",
     "{", "\"role\"", ":", "\"user\"", ",", "\"content\"", ":" >>
  \o content \o << "}", "}", "\n" >>
ToolResultList(id, result) ==
  << "[", "{", "\"type\"", ":", "\"tool_result\"", ",", "\"tool_use_id\"", ":",
     "\"" \o id \o "\"", ",", "\"content\"", ":", result, "}", "]" >>
EnvelopeLines(op) ==
  IF op = "send_message"
    THEN {UserEnvelopeLine(<< "\"" \o m \o "\"" >>) : m \in Texts}
    ELSE {UserEnvelopeLine(ToolResultList(id, r)) :
            id \in ToolUseIds, r \in ResultValues}
EndsWith(w, line) ==
  /\ Len(w) >= Len(line)
  /\ SubSeq(w, Len(w) - Len(line) + 1, Len(w)) = line

\* C10: only the task that holds the stdin lock in a send writes to the
\* installed stream; a send that returns Ok has appended one envelope of its
\* kind and one newline after it; and on every stream the number of newlines
\* equals the number of sends that returned Ok.
C10_OneLinePerSend ==
  /\ [](\A s \in Streams : NewlineCount(written[s]) = sent[s])
  /\ [](\A p \in Tasks :
          (pc[p] = "send_write" /\ Len(loc[p].out) = 1)
            => \E line \in EnvelopeLines(loc[p].op) :
                 EndsWith(written[Unwrap(loc[p].s)] \o << "\n" >>, line))
  /\ [][\A s \in Streams :
          written'[s] # written[s]
          => \E p \in Tasks :
               /\ pc[p] = "send_write"
               /\ stdin_lock = Owner(p)
               /\ stdin = Some(s)
               /\ loc[p].s = Some(s)
               /\ \/ /\ Len(loc[p].out) = 2
                     /\ pc'[p] = "send_write"
                     /\ Len(loc'[p].out) = 1
                     /\ sent' = sent
                  \/ /\ Len(loc[p].out) = 1
                     /\ written'[s] = written[s] \o << "\n" >>
                     /\ \E line \in EnvelopeLines(loc[p].op) :
                          EndsWith(written'[s], line)
                     /\ pc'[p] = Idle
                     /\ last'.op = loc[p].op
                     /\ last'.res = Ok
                     /\ sent' = [sent EXCEPT ![s] = @ + 1]]_vars
  /\ [][\A p \in Tasks :
          (pc[p] = "send_write" /\ pc'[p] = Idle /\ last'.res = Ok)
          => sent'[Unwrap(loc[p].s)] = sent[Unwrap(loc[p].s)] + 1]_vars

\* send_message("hi") and then send_response have returned Ok: the stream
\* holds exactly the two lines.
C10_Witness ==
  /\ sent[1] = 2
  /\ last.res = Ok
  /\ last.op = "send_response"
  /\ written[1] =
       << "{", "\"type\"", ":", "\"user\"", ",", "\"message\"", ":",
          "{", "\"role\"", ":", "\"user\"", ",", "\"content\"", ":", "\"hi\"",
          "}", "}", "\n" >>
       \o UserEnvelopeLine(ToolResultList("toolu_1", "\"yes\""))

\* Every JSON text a send can hand to write_all.
AllJson ==
  {MessageJson(m) : m \in Texts}
  \cup {ResponseJson(id, r) : id \in ToolUseIds, r \in ResultValues}
StartsWith(w, b) == Len(w) >= Len(b) /\ SubSeq(w, 1, Len(b)) = b
After(w, b) == SubSeq(w, Len(b) + 1, Len(w))

\* w is whole envelopes only: each JSON text followed by its newline.
RECURSIVE WholeEnvelopes(_)
WholeEnvelopes(w) ==
  \/ w = <<>>
  \/ \E b \in AllJson :
       /\ StartsWith(w, b \o << Newline >>)
       /\ WholeEnvelopes(After(w, b \o << Newline >>))

\* w is envelopes one after the other, none inside another, where an
\* envelope may lack its newline (its write_all stopped after the text).
RECURSIVE Contiguous(_)
Contiguous(w) ==
  \/ w = <<>>
  \/ \E b \in AllJson :
       /\ StartsWith(w, b)
       /\ \/ Contiguous(After(w, b))
          \/ /\ StartsWith(w, b \o << Newline >>)
             /\ Contiguous(After(w, b \o << Newline >>))

\* C11 (as the spec states it): whenever no send is writing, every stream
\* holds whole envelopes only.
C11_OnlyWholeEnvelopes ==
  stdin_lock = Free => \A s \in Streams : WholeEnvelopes(written[s])

\* C11: a task inside write_all holds the stdin lock from its acquisition
\* to its return, and the installed stream stays the one it locked; only
\* that task appends to the stream, a piece of its own envelope; so every
\* stream holds envelopes one after the other, never one inside another,
\* an envelope lacking its tail only when its write_all failed or is still
\* running; and set_stdin and the clearing step of kill_persistent_session
\* never act while a write is in progress.
C11_SendsDoNotInterleave ==
  /\ [](\A p \in Tasks :
          pc[p] = "send_write"
            => /\ stdin_lock = Owner(p)
               /\ stdin = loc[p].s
               /\ \A q \in Tasks \ {p} : pc[q] # "send_write")
  /\ [](\A s \in Streams : Contiguous(written[s]))
  /\ [][\A s \in Streams :
          written'[s] # written[s]
            => \E p \in Tasks :
                 /\ stdin_lock = Owner(p)
                 /\ loc[p].s = Some(s)
                 /\ written'[s] = written[s] \o Head(loc[p].out)
                 /\ \A s2 \in Streams \ {s} : written'[s2] = written[s2]]_vars
  /\ [][(\E p \in Tasks : pc[p] = "send_write")
          => (stdin' = stdin /\ nstreams' = nstreams)]_vars

\* One send failed after its text was written, and a second send then
\* wrote its whole envelope behind it and returned Ok.
C11_Witness ==
  /\ stdin_lock = Free
  /\ last.res = Ok
  /\ last.op = "send_response"
  /\ sent[1] = 1
  /\ written[1] = MessageJson("hi")
                  \o ResponseJson("toolu_1", "\"yes\"") \o << Newline >>

C13_Input ==
  IF env.PATH = None THEN << >>
  ELSE SelectSeq(Unwrap(env.PATH), LAMBDA entry : entry # "")
\* The directories the call is to append.
C13_Appended ==
  {"/opt/homebrew/bin", "/usr/local/bin", "/usr/bin", "/bin", "/usr/sbin",
   "/sbin"}
  \cup (IF env.HOME = {"/home/u"}
          THEN {"/home/u/.local/bin", "/home/u/.local/share/mise/shims",
                "/home/u/.cargo/bin", "/home/u/.bun/bin"}
               \cup {"/home/u/.nvm/versions/node/" \o env.nvm[i] \o "/bin" :
                       i \in DOMAIN env.nvm}
          ELSE {})
  \cup (IF path_env.claude_bin = {"/usr/local/bin/claude"}
          THEN {"/usr/local/bin"}
        ELSE IF path_env.claude_bin = {"/opt/claude/bin/claude"}
          THEN {"/opt/claude/bin"}
        ELSE IF path_env.claude_bin = {"claude"} THEN {""}
        ELSE {})
Count(paths, value) == Cardinality({i \in DOMAIN paths : paths[i] = value})

\* C13 (as the spec states it): the augmented path starts with the input's
\* non-empty entries, has no duplicate entry, and has each appended
\* directory exactly once.
C13_NoDuplicateEntries ==
  path_env.called =>
    /\ path_env.result # None
    /\ LET out == Unwrap(path_env.result)
       IN  /\ StartsWith(out, C13_Input)
           /\ \A i \in DOMAIN out, j \in DOMAIN out : out[i] = out[j] => i = j
           /\ \A d \in C13_Appended : Count(out, d) = 1

\* C13: the augmented path starts with the input PATH's non-empty entries in
\* their order; behind them come only appended directories, each at most
\* once and none that the input already lists; so an entry occurs twice
\* only where the input PATH itself repeats it, and every appended
\* directory occurs once, or as often as the input PATH lists it.
C13_AppendedOnce ==
  path_env.called =>
    /\ path_env.result # None
    /\ LET out == Unwrap(path_env.result)
           n == Len(C13_Input)
       IN  /\ StartsWith(out, C13_Input)
           /\ \A i \in DOMAIN out, j \in DOMAIN out :
                (out[i] = out[j] /\ i < j) => j <= n
           /\ \A i \in DOMAIN out : i > n => out[i] \in C13_Appended
           /\ \A d \in C13_Appended :
                Count(out, d) = IF Count(C13_Input, d) = 0 THEN 1
                                ELSE Count(C13_Input, d)

\* PATH lists <home>/.local/bin once, behind an empty entry; the result
\* keeps the two input entries in front and does not append it again.
C13_Witness ==
  /\ env = [PATH |-> Some(<< "/usr/bin", "", "/home/u/.local/bin" >>),
            HOME |-> Some("/home/u"), nvm |-> << "v20" >>]
  /\ path_env.called
  /\ path_env.claude_bin = Some("/opt/claude/bin/claude")
  /\ path_env.result =
       Some(<< "/usr/bin", "/home/u/.local/bin", "/opt/homebrew/bin",
               "/usr/local/bin", "/bin", "/usr/sbin", "/sbin",
               "/home/u/.local/share/mise/shims", "/home/u/.cargo/bin",
               "/home/u/.bun/bin", "/home/u/.nvm/versions/node/v20/bin",
               "/opt/claude/bin" >>)

\* The session locks task p holds.
LocksHeld(p) ==
  (IF active_turns_lock = Owner(p) THEN {"active_turns"} ELSE {})
  \cup (IF stdin_lock = Owner(p) THEN {"stdin"} ELSE {})
  \cup (IF persistent_child_lock = Owner(p) THEN {"persistent_child"} ELSE {})
  \cup {h \in Handles : child_lock[h] = Owner(p)}

\* C14: a task never holds two session locks at once; an interrupt_turn
\* that waits for its turn's child lock, or holds it for the kill, has
\* released the lock of the turn map.
C14_OneLockAtATime ==
  \A p \in Tasks :
    /\ Cardinality(LocksHeld(p)) <= 1
    /\ pc[p] \in {"interrupt_child_lock", "interrupt_kill"}
         => active_turns_lock # Owner(p)

\* C15: while an interrupt_turn on one thread waits for the child lock or
\* for its kill, a task between calls can run track_turn, clear_turn and
\* interrupt_turn on any other thread.
C15_OtherThreadsProceed ==
  \A p \in Tasks :
    pc[p] \in {"interrupt_child_lock", "interrupt_kill"}
      => \A q \in Tasks \ {p}, t \in Threads \ {loc[p].t} :
           pc[q] = Idle
             => /\ ENABLED TrackTurn(q, t, "A", "h1")
                /\ ENABLED ClearTurn(q, t, "A")
                /\ ENABLED InterruptLock(q, t, "A")

\* Task p is parked at a lock that task q owns.
WaitsFor(p, q) ==
  \/ pc[p] = "interrupt_child_lock" /\ child_lock[loc[p].h] = Owner(q)
  \/ pc[p] = "kill_take" /\ persistent_child_lock = Owner(q)
  \/ pc[p] = "kill_clear" /\ stdin_lock = Owner(q)
RECURSIVE WaitsThrough(_, _, _)
WaitsThrough(p, q, n) ==
  \/ WaitsFor(p, q)
  \/ n > 1 /\ \E r \in Tasks : WaitsFor(p, r) /\ WaitsThrough(r, q, n - 1)

\* C16: no task waits, directly or through other tasks, for a lock it holds
\* itself; and every call that has started returns.
C16_NoDeadlock ==
  /\ [](\A p \in Tasks : ~WaitsThrough(p, p, NumTasks))
  /\ \A p \in Tasks : (pc[p] # Idle) ~> (pc[p] = Idle)

\* While the other owner of h1 holds its lock, one task is parked in
\* kill_persistent_session at a lock the other task owns.
C16_Witness ==
  /\ child_lock["h1"] = Caller
  /\ \E p \in Tasks, q \in Tasks : p # q /\ WaitsFor(p, q)

\* The tracker's calls as one-at-a-time operations on a mapping from
\* thread-id to at most one pair of turn-id and process handle.
Abs(m) ==
  [t \in Threads |-> {<< e.turn_id, e.child >> : e \in MapGet(m, t)}]
SeqRegister(a, t, x, h) == [a EXCEPT ![t] = {<< x, h >>}]
SeqMatches(a, t, x) == \E e \in a[t] : e[1] = x
SeqClear(a, t, x) == IF SeqMatches(a, t, x) THEN [a EXCEPT ![t] = {}] ELSE a
SeqInterruptKilled(a, t, x) == {e[2] : e \in {d \in a[t] : d[1] = x}}
SeqInterruptResult(a, t, x, outcome) ==
  IF SeqMatches(a, t, x) /\ outcome \notin {"Ok", "InvalidInput"}
    THEN "Err(kill)"
    ELSE "Ok"
InterruptRunning(p) == pc[p] \in {"interrupt_child_lock", "interrupt_kill"}

\* C17: concurrent track_turn, clear_turn and interrupt_turn calls behave
\* as if run one at a time.  A call that returns in the step in which it
\* locks the map changes the mapping, kills nothing and returns exactly as
\* its one-at-a-time operation does; from the step in which a matching
\* interrupt_turn locks the map to the step in which it returns, no other
\* call starts, returns, or changes the mapping or a process, and at its
\* return the mapping, the killed handle and the result are those of the
\* one-at-a-time interrupt applied to the mapping it found.
C17_Linearizable ==
  /\ [](\A t \in Threads : Cardinality(MapGet(active_turns, t)) <= 1)
  /\ [][(pc' = pc /\ (active_turns' # active_turns \/ last' # last))
          => /\ kills' = kills
             /\ active_turns_lock = Free /\ active_turns_lock' = Free
             /\ last'.res = Ok
             /\ last'.killed = {}
             /\ \/ /\ last'.op = "track_turn"
                   /\ \E h \in Handles :
                        Abs(active_turns') =
                          SeqRegister(Abs(active_turns), last'.t, last'.x, h)
                \/ /\ last'.op = "clear_turn"
                   /\ Abs(active_turns') =
                        SeqClear(Abs(active_turns), last'.t, last'.x)
                \/ /\ last'.op = "interrupt_turn"
                   /\ SeqInterruptKilled(Abs(active_turns), last'.t,
                                         last'.x) = {}
                   /\ active_turns' = active_turns]_vars
  /\ [][\A p \in Tasks :
          (pc[p] = Idle /\ InterruptRunning(p)')
            => /\ ActiveTurn(loc'[p].t, loc'[p].x, loc'[p].h) \in active_turns
               /\ active_turns' =
                    active_turns \ {ActiveTurn(loc'[p].t, loc'[p].x, loc'[p].h)}
               /\ kills' = kills /\ last' = last]_vars
  /\ [][\A p \in Tasks :
          (InterruptRunning(p) /\ InterruptRunning(p)')
            => /\ active_turns' = active_turns
               /\ kills' = kills
               /\ last' = last
               /\ \A q \in Tasks \ {p} : pc'[q] = pc[q] /\ pc[q] = Idle]_vars
  /\ [][\A p \in Tasks :
          (InterruptRunning(p) /\ pc'[p] = Idle)
            => LET found == Abs(active_turns \cup
                                {ActiveTurn(loc[p].t, loc[p].x, loc[p].h)})
               IN  /\ pc[p] = "interrupt_kill"
                   /\ Abs(active_turns') = SeqClear(found, loc[p].t, loc[p].x)
                   /\ last'.op = "interrupt_turn"
                   /\ last'.t = loc[p].t /\ last'.x = loc[p].x
                   /\ last'.killed =
                        SeqInterruptKilled(found, loc[p].t, loc[p].x)
                   /\ last'.res =
                        SeqInterruptResult(found, loc[p].t, loc[p].x,
                                           last'.outcome)
                   /\ \A h \in Handles :
                        kills'[h] = IF h \in last'.killed THEN last'.outcome
                                    ELSE kills[h]]_vars

\* Task 1's stale interrupt_turn("t1", "B") has returned and left the
\* registered turn A of t1 in place, while task 2 is inside the kill of
\* its interrupt_turn on t2.
C17_Witness ==
  /\ pc[2] = "interrupt_kill"
  /\ loc[2].t = "t2"
  /\ last.op = "interrupt_turn"
  /\ last.t = "t1"
  /\ last.x = "B"
  /\ last.before = {ActiveTurn("t1", "A", "h1")}
  /\ ActiveTurn("t1", "A", "h1") \in active_turns

\* C18: an entry leaves the mapping only in a step of clear_turn on its
\* thread and turn, of track_turn on its thread, or of interrupt_turn on its
\* thread and turn; and when that interrupt_turn returns an error the entry
\* is in the mapping again, so the turn can be interrupted once more.
C18_FailedInterruptKeepsEntry ==
  /\ [][\A e \in active_turns \ active_turns' :
          \/ /\ last'.op = "clear_turn"
             /\ last'.t = e.thread_id /\ last'.x = e.turn_id
          \/ /\ last'.op = "track_turn"
             /\ last'.t = e.thread_id
          \/ \E p \in Tasks :
               /\ pc[p] = Idle /\ pc'[p] = "interrupt_child_lock"
               /\ loc'[p].t = e.thread_id /\ loc'[p].x = e.turn_id]_vars
  /\ [][\A p \in Tasks :
          (pc[p] = "interrupt_kill" /\ pc'[p] = Idle /\ last'.res = ErrKill)
            => ActiveTurn(loc[p].t, loc[p].x, loc[p].h) \in active_turns']_vars

TrackerOps == {"track_turn", "clear_turn", "interrupt_turn"}
ChannelOps ==
  {"set_stdin", "set_persistent_child", "has_persistent_session",
   "send_message", "send_response", "kill_persistent_session"}
InTracker(p) == pc[p] \in {"interrupt_child_lock", "interrupt_kill"}
InChannel(p) ==
  pc[p] \in {"send_write", "kill_flush", "kill_take", "kill_child",
             "kill_clear"}

\* C19: the entry of a thread changes only in a step of a tracker call on
\* that thread, and a turn's process is killed only by the interrupt_turn
\* that removed its entry; a step of a tracker call leaves the stream, what
\* was written to it and the persistent process as they are; a step of a
\* channel call leaves the turn map, its locks and every turn's process as
\* they are.
C19_FrameIndependence ==
  /\ [][\A t \in Threads :
          MapGet(active_turns', t) # MapGet(active_turns, t)
            => \/ /\ last'.op \in TrackerOps
                  /\ last'.t = t
                  /\ pc' = pc
               \/ \E p \in Tasks :
                    /\ pc[p] = Idle /\ InTracker(p)'
                    /\ loc'[p].t = t]_vars
  /\ [][\A h \in Handles :
          kills'[h] # kills[h]
            => \E p \in Tasks :
                 /\ pc[p] = "interrupt_kill" /\ loc[p].h = h
                 /\ last'.op = "interrupt_turn"
                 /\ last'.killed = {h}]_vars
  /\ [][((\E p \in Tasks : InTracker(p) \/ InTracker(p)')
         \/ (last'.op \in TrackerOps /\ last' # last))
          => UNCHANGED chanVars]_vars
  /\ [][((\E p \in Tasks : InChannel(p) \/ InChannel(p)')
         \/ (last'.op \in ChannelOps /\ last' # last))
          => UNCHANGED <<turnVars, kills>>]_vars
  /\ [][(turnVars' # turnVars \/ kills' # kills) => UNCHANGED chanVars]_vars

\* interrupt_turn("t1", "A") has just killed h1 while a stream with one
\* envelope on it and a persistent process are installed and t2's turn is
\* tracked: t2's entry, h2, the stream and the process are untouched.
C19_Witness ==
  /\ last.op = "interrupt_turn"
  /\ last.t = "t1"
  /\ last.killed = {"h1"}
  /\ active_turns = {ActiveTurn("t2", "A", "h2")}
  /\ kills["h2"] = "none"
  /\ stdin = Some(1)
  /\ sent[1] = 1
  /\ persistent_child = Some(TheChild)

\* kill_persistent_session of task p has killed the persistent process and
\* has not yet cleared the stream.
KilledNotCleared(p) == pc[p] = "kill_clear" /\ loc[p].k = "Ok"
\* The only stream ever attached is installed, and the last call to return
\* was the attach of the process: that process is the one killed.
AttachedThenKilled(p) ==
  /\ KilledNotCleared(p)
  /\ nstreams = 1
  /\ stdin = Some(1)
  /\ last.op = "set_persistent_child"

\* C20: once kill_persistent_session has killed the persistent process
\* that was attached to the installed stream, no send holds the stream, writes
\* to it or returns Ok: a send that raced the shutdown has finished its
\* write before the kill, and one that comes later finds no stream.
C20_NoWriteAfterKill ==
  /\ [](\A p \in Tasks :
          AttachedThenKilled(p) => \A q \in Tasks : pc[q] # "send_write")
  /\ [][(\E p \in Tasks : AttachedThenKilled(p))
          => (written' = written /\ sent' = sent)]_vars

====
